---- MODULE Spec2Model ----
(***************************************************************************)
(* Model of the io-engine core runtime:                                    *)
(*   - the per-core nexus I/O channel (bdev/nexus/nexus_channel.rs)        *)
(*   - the per-core reactor (core/reactor.rs)                              *)
(***************************************************************************)
EXTENDS Integers, Sequences, FiniteSets, TLC

(***************************************************************************)
(* Bounds                                                                  *)
(***************************************************************************)
\* number of children of the nexus
NumChildren == 2

\* number of cores, one reactor each; core 1 is the first (master) core
NumCores == 2

\* number of SPDK threads the subsystems create
MaxThreads == 2

\* futures given to send_future
MaxFutures == 2

\* seconds the health monitor runs
MaxTick == 5

\* calls of block_on from outside the reactor
MaxBlockOn == 2

\* polls a future given to block_on takes to resolve
MaxSteps == 2

(***************************************************************************)
(* Children of the nexus (collaborator of the channel)                     *)
(***************************************************************************)
AllNames == <<"A", "B", "C", "D", "E", "F">>

\* device name of the i-th child; unique within a nexus
DevName(i) == AllNames[i]

\* a device name no child of the nexus has
NoSuchName == "Z"

ChildIds == 1 .. NumChildren

ChildNames == {DevName(i) : i \in ChildIds}

DeviceNames == ChildNames \cup {NoSuchName}

ChildState == {"Open", "FaultedIoError", "FaultedCantOpen",
               "Closed", "Rebuilding"}

\* a child: its state cell, and whether it holds its device reference
\* (get_device() is Ok); close() and remove() drop the reference
Child == [state : ChildState, dev : BOOLEAN]

\* outcome of the two get_io_handle() calls made for a child
AcqOutcome == [w : BOOLEAN, r : BOOLEAN]

VARIABLES
    children,   \* nexus children, in child order
    readers,    \* NexusChannelInner::readers
    writers,    \* NexusChannelInner::writers
    previous,   \* NexusChannelInner::previous
    alive,      \* the NexusChannel value exists (new .. clear)
    removed,    \* devices of the nexus given to remove_device since the
                \* vectors were last built
    lastOp,     \* the operation that produced this state, and its result
    held,       \* handles acquired from the children and not yet dropped
    misdrop     \* a handle was dropped that was not held, or dropped twice

chanVars == <<children, readers, writers, previous, alive, removed, lastOp,
              held, misdrop>>

VARIABLES
    flags,      \* Reactor::flags, per core
    rpc,        \* where the OS thread of Reactor::poll is, per core
    delayEnv,   \* the environment sets MAYASTOR_DELAY
    futDone,    \* the master reactor's Future has returned Ready
    threads,    \* Reactor::threads, per core
    incoming,   \* Reactor::incoming, per core
    tcreated,   \* threads handed to the scheduling hook so far
    texited,    \* threads whose is_exited() is true
    tdestroyed  \* number of destroy() calls, per thread

reactorVars == <<flags, rpc, delayEnv, futDone, threads, incoming,
                 tcreated, texited, tdestroyed>>

VARIABLES
    rx,         \* Reactor::sx / rx: the futures sent to a core, oldest first
    sent,       \* number of futures given to send_future by callers so far
    log,        \* per core: the futures its reactor has run, in order
    ticks,      \* REACTOR_TICKS: heartbeat counter, per core
    pass        \* per core: what the last poll of its reactor did, in order

futVars == <<rx, sent, log, ticks, pass>>

VARIABLES
    tick,       \* reactor_monitor_loop: tick
    frozen,     \* ReactorRecord::frozen, per core
    mpc,        \* where reactor_monitor_loop is: "send" or "wait"
    timeout,    \* reactor_monitor_loop: timeout
    report      \* the last diagnostic the monitor emitted, per core

monVars == <<tick, frozen, mpc, timeout, report>>

VARIABLES
    current,    \* spdk_rs::Thread::current() on the primary core's OS thread
    stack,      \* calls in progress on that OS thread, innermost last
    panicked,   \* a RefCell borrow failed on that OS thread
    queue,      \* QUEUE of that OS thread: the runnables to run
    spawned     \* number of tasks block_on has spawned

blkVars == <<current, stack, panicked, queue, spawned>>

\* everything but the nexus channel
nonChanVars == <<reactorVars, futVars, monVars, blkVars>>

(***************************************************************************)
(* Helpers                                                                 *)
(***************************************************************************)
\* the two get_io_handle() calls made for a child: writer first
Roles == <<"w", "r">>

\* a handle refers to the device it was acquired from; the handles of one
\* child are told apart by the call that returned them, and fresh tells
\* the handles acquired by the latest new()/refresh() from older ones
Handle(i, role) == [device |-> DevName(i), role |-> role, fresh |-> TRUE]

\* the handles held before a new()/refresh(), as that call sees them
Age(hs) == [k \in 1 .. Len(hs) |-> [hs[k] EXCEPT !.fresh = FALSE]]

\* the elements of a sequence
Range(seq) == {seq[k] : k \in 1 .. Len(seq)}

\* no element occurs twice
NoDup(seq) == \A j, k \in 1 .. Len(seq) : seq[j] = seq[k] => j = k

\* BlockDeviceHandle::get_device().device_name()
device_name(h) == h.device

NamesOf(hs) == [k \in 1 .. Len(hs) |-> device_name(hs[k])]

NameSet(hs) == {device_name(hs[k]) : k \in 1 .. Len(hs)}

ChildIdSeq == [i \in ChildIds |-> i]

HandlesOf(ids, role) == [k \in 1 .. Len(ids) |-> Handle(ids[k], role)]

AllOk == [i \in ChildIds |-> [w |-> TRUE, r |-> TRUE]]

\* the child a device name belongs to (0 when there is none)
ChildOf(name) ==
    IF \E i \in ChildIds : DevName(i) = name
    THEN CHOOSE i \in ChildIds : DevName(i) = name
    ELSE 0

\* result value of child_select: None
None == 0 - 1

\* lastOp: the operation, its device_name argument and the Option<usize> /
\* bool it returned (for refresh: whether every get_io_handle() succeeded;
\* for remove_device: the number of writers it dropped, as it traces);
\* after is the name given to the remove_device a refresh directly follows,
\* acq the outcomes of the get_io_handle() calls of a new()/refresh()
Op(o, n, i, b) ==
    [op |-> o, name |-> n, idx |-> i, ok |-> b, after |-> "-", acq |-> AllOk]

NoOp == Op("env", "-", None, FALSE)

\* NexusChild::get_io_handle(): a handle is opened on the child's device
get_io_handle(c, outcome) == c.dev /\ outcome

(***************************************************************************)
(* fault_nexus_child / NexusChannelInner operations, as pure functions     *)
(***************************************************************************)
\* children fault_nexus_child() reaches: Open, with a device of that name
FaultCandidates(cs, name) ==
    {i \in ChildIds : cs[i].state = "Open"
                      /\ cs[i].dev /\ DevName(i) = name}

\* fault_nexus_child whose compare_exchange never succeeds
fault_nexus_child_never_swaps(cs, name) == [children |-> cs, ret |-> FALSE]

\* fault_nexus_child without the filter on ChildState::Open
fault_nexus_child_any_state(cs, name) ==
    LET cand == {i \in ChildIds : cs[i].dev /\ DevName(i) = name} IN
    IF cand = {}
    THEN [children |-> cs, ret |-> FALSE]
    ELSE LET i == CHOOSE j \in cand : \A k \in cand : j <= k IN
         [children |-> [cs EXCEPT ![i].state = "FaultedIoError"],
          ret |-> TRUE]

\* any() stops at the first child whose compare_exchange succeeds.  The
\* exchange of an Open child succeeds unless another core changed the state
\* after the filter read it; that run equals the one where the other core
\* acted first, so the read and the exchange are one step here.
fault_nexus_child(cs, name) ==
    LET cand == FaultCandidates(cs, name) IN
    IF cand = {}
    THEN [children |-> cs, ret |-> FALSE]
    ELSE LET i == CHOOSE j \in cand : \A k \in cand : j <= k IN
         [children |-> [cs EXCEPT ![i].state = "FaultedIoError"],
          ret |-> TRUE]

fault_device(cs, name) == fault_nexus_child(cs, name)

\* child_select with the bound of the cursor off by one
child_select_past_end(rs, prev) ==
    IF Len(rs) = 0
    THEN [previous |-> prev, ret |-> None]
    ELSE LET p == IF prev < Len(rs) THEN prev + 1 ELSE 0 IN
         [previous |-> p, ret |-> p]

\* child_select that returns the cursor it started from
child_select_returns_old(rs, prev) ==
    IF Len(rs) = 0
    THEN [previous |-> prev, ret |-> None]
    ELSE [previous |-> IF prev < Len(rs) - 1 THEN prev + 1 ELSE 0,
          ret |-> prev]

\* child_select: the new cursor (None when there is no reader)
child_select(rs, prev) ==
    IF Len(rs) = 0
    THEN [previous |-> prev, ret |-> None]
    ELSE LET p == IF prev < Len(rs) - 1 THEN prev + 1 ELSE 0 IN
         [previous |-> p, ret |-> p]

\* retain with a predicate that keeps every handle
retain_all(hs, name) == hs

\* Vec::retain(|c| c.get_device().device_name() != device_name)
retain(hs, name) == SelectSeq(hs, LAMBDA h : device_name(h) # name)

\* the handles retain() removes from a vector, which drops them
Retired(hs, name) == SelectSeq(hs, LAMBDA h : device_name(h) = name)

\* remove_device that forgets the readers
remove_device_writers_only(cs, rs, ws, name) ==
    LET f == fault_nexus_child(cs, name) IN
    [children |-> f.children,
     readers  |-> rs,
     writers  |-> SelectSeq(ws, LAMBDA h : device_name(h) # name),
     previous |-> 0,
     dropped  |-> Retired(ws, name),
     ret      |-> f.ret]

remove_device(cs, rs, ws, name) ==
    LET f == fault_device(cs, name) IN
    [children |-> f.children,
     readers  |-> retain(rs, name),
     writers  |-> retain(ws, name),
     previous |-> 0,
     dropped  |-> Retired(rs, name) \o Retired(ws, name),
     ret      |-> f.ret]

\* an Open child for which both get_io_handle() calls succeed
BothHandles(cs, acq, i) ==
    /\ cs[i].state = "Open"
    /\ get_io_handle(cs[i], acq[i].w)
    /\ get_io_handle(cs[i], acq[i].r)

\* an Open child for which only the call for role succeeds: the handle it
\* returned is dropped with the tuple the match arm `_` discards
HalfHandle(cs, acq, i, role) ==
    /\ cs[i].state = "Open"
    /\ ~BothHandles(cs, acq, i)
    /\ get_io_handle(cs[i], acq[i][role])

\* OpenPass that keeps the child open when an acquisition fails
OpenPass_no_fault(cs, acq) ==
    LET ids == SelectSeq(ChildIdSeq, LAMBDA i : BothHandles(cs, acq, i))
        hw  == SelectSeq(ChildIdSeq, LAMBDA i : HalfHandle(cs, acq, i, "w"))
        hr  == SelectSeq(ChildIdSeq, LAMBDA i : HalfHandle(cs, acq, i, "r"))
    IN
    [children |-> cs,
     writers  |-> HandlesOf(ids, "w"),
     readers  |-> HandlesOf(ids, "r"),
     acquired |-> HandlesOf(ids, "w") \o HandlesOf(ids, "r")
                  \o HandlesOf(hw, "w") \o HandlesOf(hr, "r"),
     dropped  |-> HandlesOf(hw, "w") \o HandlesOf(hr, "r")]

\* the pass over the Open children, shared by new() and refresh()
OpenPass(cs, acq) ==
    LET ids == SelectSeq(ChildIdSeq, LAMBDA i : BothHandles(cs, acq, i))
        hw  == SelectSeq(ChildIdSeq, LAMBDA i : HalfHandle(cs, acq, i, "w"))
        hr  == SelectSeq(ChildIdSeq, LAMBDA i : HalfHandle(cs, acq, i, "r"))
    IN
    [children |-> [i \in ChildIds |->
                     IF cs[i].state = "Open" /\ ~BothHandles(cs, acq, i)
                     THEN [cs[i] EXCEPT !.state = "FaultedCantOpen"]
                     ELSE cs[i]],
     writers  |-> HandlesOf(ids, "w"),
     readers  |-> HandlesOf(ids, "r"),
     acquired |-> HandlesOf(ids, "w") \o HandlesOf(ids, "r")
                  \o HandlesOf(hw, "w") \o HandlesOf(hr, "r"),
     dropped  |-> HandlesOf(hw, "w") \o HandlesOf(hr, "r")]

\* NexusChild::rebuilding()
rebuilding(c) == c.state = "Rebuilding"

\* the pass over the write-only children; it runs when the channel's
\* readers (self.readers, not yet replaced) are not empty
AddWriteOnly(rs) == Len(rs) # 0

RebuildPass(cs, acq) ==
    LET ids == SelectSeq(ChildIdSeq,
                   LAMBDA i : rebuilding(cs[i])
                              /\ get_io_handle(cs[i], acq[i].w)) IN
    [children |-> [i \in ChildIds |->
                     IF rebuilding(cs[i]) /\ ~get_io_handle(cs[i], acq[i].w)
                     THEN [cs[i] EXCEPT !.state = "FaultedCantOpen"]
                     ELSE cs[i]],
     writers  |-> HandlesOf(ids, "w")]

\* refresh that gives the write-only children a reader as well
refresh_rebuild_reads(cs, rs, ws, acq) ==
    LET o == OpenPass(cs, acq)
        b == IF AddWriteOnly(rs)
             THEN RebuildPass(o.children, acq)
             ELSE [children |-> o.children, writers |-> << >>] IN
    [children |-> b.children,
     writers  |-> o.writers \o b.writers,
     readers  |-> o.readers \o b.writers,
     previous |-> 0,
     acquired |-> o.acquired \o b.writers,
     dropped  |-> o.dropped \o Age(ws) \o Age(rs)]

\* refresh that appends to the vectors it holds instead of replacing them
refresh_merges(cs, rs, ws, acq) ==
    LET o == OpenPass(cs, acq)
        b == IF AddWriteOnly(rs)
             THEN RebuildPass(o.children, acq)
             ELSE [children |-> o.children, writers |-> << >>] IN
    [children |-> b.children,
     writers  |-> Age(ws) \o o.writers \o b.writers,
     readers  |-> Age(rs) \o o.readers,
     previous |-> 0,
     acquired |-> o.acquired \o b.writers,
     dropped  |-> o.dropped]

\* refresh that puts the writers of the write-only children first
refresh_rebuild_first(cs, rs, ws, acq) ==
    LET o == OpenPass(cs, acq)
        b == IF AddWriteOnly(rs)
             THEN RebuildPass(o.children, acq)
             ELSE [children |-> o.children, writers |-> << >>] IN
    [children |-> b.children,
     writers  |-> b.writers \o o.writers,
     readers  |-> o.readers,
     previous |-> 0,
     acquired |-> o.acquired \o b.writers,
     dropped  |-> o.dropped \o Age(ws) \o Age(rs)]

\* the new vectors are built first; clear() on the old vectors then drops
\* every handle held before the call, and the new vectors are installed
refresh(cs, rs, ws, acq) ==
    LET o == OpenPass(cs, acq)
        b == IF AddWriteOnly(rs)
             THEN RebuildPass(o.children, acq)
             ELSE [children |-> o.children, writers |-> << >>] IN
    [children |-> b.children,
     writers  |-> o.writers \o b.writers,
     readers  |-> o.readers,
     previous |-> 0,
     acquired |-> o.acquired \o b.writers,
     dropped  |-> o.dropped \o Age(ws) \o Age(rs)]

\* NexusChannel::new
new(cs, acq) ==
    LET o == OpenPass(cs, acq) IN
    [children |-> o.children,
     writers  |-> o.writers,
     readers  |-> o.readers,
     previous |-> 0,
     acquired |-> o.acquired,
     dropped  |-> o.dropped]

\* NexusChannel::clear: both vectors are cleared, which drops their handles
clear(rs, ws) ==
    [readers |-> << >>, writers |-> << >>, dropped |-> ws \o rs]

(***************************************************************************)
(* Channel: initial state and actions                                      *)
(***************************************************************************)
\* outcomes of the get_io_handle() calls a pass over cs can make: w is the
\* first call for a child, r the second.  No call is made for a child that
\* is neither Open nor Rebuilding, no second call for a Rebuilding child,
\* and the outcome is of no effect for a child without its device
Acquisitions(cs) ==
    {acq \in [ChildIds -> AcqOutcome] :
        \A i \in ChildIds :
            /\ (cs[i].state \notin {"Open", "Rebuilding"} \/ ~cs[i].dev)
                  => acq[i] = AllOk[i]
            /\ cs[i].state = "Rebuilding" => acq[i].r}

\* bookkeeping of the handles an operation acquired and dropped, given
\* the handles h held before it
Account(h, acquired, dropped) ==
    /\ held' = (h \cup Range(acquired)) \ Range(dropped)
    /\ misdrop' = \/ misdrop
                  \/ ~NoDup(acquired)
                  \/ ~NoDup(dropped)
                  \/ Range(acquired) \cap h # {}
                  \/ ~(Range(dropped) \subseteq (h \cup Range(acquired)))

Install(r, o) ==
    /\ children' = r.children
    /\ readers' = r.readers
    /\ writers' = r.writers
    /\ previous' = r.previous
    /\ alive' = TRUE
    /\ removed' = {}
    /\ lastOp' = o
    /\ Account({[h EXCEPT !.fresh = FALSE] : h \in held},
               r.acquired, r.dropped)

\* a nexus with all children open, and the channel new() makes of it
ChannelInit ==
    \E acq \in [ChildIds -> AcqOutcome] :
        LET r == new([i \in ChildIds |-> [state |-> "Open", dev |-> TRUE]],
                     acq) IN
        /\ children = r.children
        /\ readers = r.readers
        /\ writers = r.writers
        /\ previous = r.previous
        /\ alive = TRUE
        /\ removed = {}
        /\ lastOp = [Op("new", "-", None, FALSE) EXCEPT !.acq = acq]
        /\ held = Range(r.acquired) \ Range(r.dropped)
        /\ misdrop = FALSE

\* NexusChannel::new, after the previous channel was cleared
New ==
    /\ UNCHANGED nonChanVars
    /\ ~alive
    /\ \E acq \in Acquisitions(children) :
          Install(new(children, acq),
                  [Op("new", "-", None, FALSE) EXCEPT !.acq = acq])

ChildSelect ==
    /\ UNCHANGED nonChanVars
    /\ alive
    /\ LET r == child_select(readers, previous) IN
       /\ previous' = r.previous
       /\ lastOp' = Op("child_select", "-", r.ret, FALSE)
    /\ UNCHANGED <<children, readers, writers, alive, removed, held, misdrop>>

RemoveDevice ==
    /\ UNCHANGED nonChanVars
    /\ alive
    /\ \E name \in DeviceNames :
          LET r == remove_device(children, readers, writers, name) IN
          /\ children' = r.children
          /\ readers' = r.readers
          /\ writers' = r.writers
          /\ previous' = r.previous
          /\ removed' = removed \cup ({name} \cap ChildNames)
          /\ lastOp' = Op("remove_device", name,
                          Len(writers) - Len(r.writers), r.ret)
          /\ Account(held, << >>, r.dropped)
    /\ UNCHANGED alive

\* fault_device that also drops the handles of the device
FaultDevice_drops ==
    /\ UNCHANGED nonChanVars
    /\ alive
    /\ \E name \in DeviceNames :
          LET r == remove_device(children, readers, writers, name) IN
          /\ children' = r.children
          /\ readers' = r.readers
          /\ writers' = r.writers
          /\ previous' = r.previous
          /\ lastOp' = Op("fault_device", name, None, r.ret)
          /\ Account(held, << >>, r.dropped)
    /\ UNCHANGED <<alive, removed>>

\* NexusChannelInner::fault_device
FaultDevice ==
    /\ UNCHANGED nonChanVars
    /\ alive
    /\ \E name \in DeviceNames :
          LET r == fault_device(children, name) IN
          /\ children' = r.children
          /\ lastOp' = Op("fault_device", name, None, r.ret)
    /\ UNCHANGED <<readers, writers, previous, alive, removed, held, misdrop>>

Refresh ==
    /\ UNCHANGED nonChanVars
    /\ alive
    /\ \E acq \in Acquisitions(children) :
          Install(refresh(children, readers, writers, acq),
                  [Op("refresh", "-", None,
                      refresh(children, readers, writers, acq).children
                         = children)
                      EXCEPT !.after = IF lastOp.op = "remove_device"
                                       THEN lastOp.name ELSE "-",
                             !.acq = acq])

\* NexusChannel::clear(self)
Clear ==
    /\ UNCHANGED nonChanVars
    /\ alive
    /\ LET r == clear(readers, writers) IN
       /\ readers' = r.readers
       /\ writers' = r.writers
       /\ Account(held, << >>, r.dropped)
    /\ alive' = FALSE
    /\ lastOp' = Op("clear", "-", None, FALSE)
    /\ UNCHANGED <<children, previous, removed>>

\* the nexus, or a channel on another core, changes the state of a child
\* that holds its device; a closed child is opened on its device again
ChildStateChange ==
    /\ UNCHANGED nonChanVars
    /\ \E i \in ChildIds, s \in ChildState \ {"Closed"} :
          /\ s # children[i].state
          /\ children[i].dev \/ children[i].state = "Closed"
          /\ children' = [children EXCEPT ![i] = [state |-> s, dev |-> TRUE]]
    /\ lastOp' = NoOp
    /\ UNCHANGED <<readers, writers, previous, alive, removed, held, misdrop>>

\* the device of an Open child is removed: the nexus drops the child's
\* device reference, and closes the child in a later step
ChildDeviceRemoved ==
    /\ UNCHANGED nonChanVars
    /\ \E i \in ChildIds :
          /\ children[i].state = "Open"
          /\ children[i].dev
          /\ children' = [children EXCEPT ![i].dev = FALSE]
    /\ lastOp' = NoOp
    /\ UNCHANGED <<readers, writers, previous, alive, removed, held, misdrop>>

\* the nexus closes a child, which drops its device reference
ChildClose ==
    /\ UNCHANGED nonChanVars
    /\ \E i \in ChildIds :
          /\ children[i].state # "Closed"
          /\ children' = [children EXCEPT
                             ![i] = [state |-> "Closed", dev |-> FALSE]]
    /\ lastOp' = NoOp
    /\ UNCHANGED <<readers, writers, previous, alive, removed, held, misdrop>>

ChannelNext ==
    \/ New
    \/ ChildSelect
    \/ RemoveDevice
    \/ FaultDevice
    \/ Refresh
    \/ Clear
    \/ ChildStateChange
    \/ ChildDeviceRemoved
    \/ ChildClose

(***************************************************************************)
(* Reactor                                                                 *)
(***************************************************************************)
Cores == 1 .. NumCores

\* Cores::first()
FirstCore == 1

Threads == 1 .. MaxThreads

\* Thread::current() is None
NoThread == 0

\* Heartbeat timeout (in seconds) to classify a reactor as frozen
REACTOR_HEARTBEAT_TIMEOUT == 3

ReactorState == {"Init", "Running", "Shutdown", "Delayed"}

\* Reactor::set_state
set_state(c, state) == flags' = [flags EXCEPT ![c] = state]

\* the state Reactor::poll and the Future's Init arm choose
StartState == IF delayEnv THEN "Delayed" ELSE "Running"

\* Reactor::add_incoming: the new threads deque and incoming queue of core c
add_incoming(c) ==
    /\ threads' = [threads EXCEPT ![c] = threads[c] \o incoming[c]]
    /\ incoming' = [incoming EXCEPT ![c] = << >>]

\* Reactor::destroy_exited applied to a deque
Remaining(ts) == SelectSeq(ts, LAMBDA t : t \notin texited)

Exited(ts) == {ts[k] : k \in 1 .. Len(ts)} \cap texited

\* a future given to the send_future of reactor to by a caller on core
\* from; id is its number in the order of the send_future calls
UserFuture(id, from, to) ==
    [kind |-> "user", id |-> id, from |-> from, to |-> to]

\* the heartbeat future reactor_monitor_loop sends to the reactor of core c
Heartbeat(c) == [kind |-> "hb", id |-> c, from |-> FirstCore, to |-> c]

\* Reactor::send_future
send_future(c, f) == rx' = [rx EXCEPT ![c] = Append(rx[c], f)]

\* the futures of callers among the tasks q
UserTasks(q) == SelectSeq(q, LAMBDA f : f.kind = "user")

\* the heartbeat futures for core k among the tasks q
Beats(q, k) == Len(SelectSeq(q, LAMBDA f : f.kind = "hb" /\ f.id = k))

\* q backwards
Reverse(q) == [k \in 1 .. Len(q) |-> q[Len(q) + 1 - k]]

\* Reactor::receive_futures: every future in the channel of core c is
\* spawned on the queue of the polling thread; the tasks are rx[c]
receive_futures(c) == rx' = [rx EXCEPT ![c] = << >>]

\* run_futures that runs the youngest task first
run_futures_lifo(c, q) ==
    /\ log' = [log EXCEPT ![c] = log[c] \o UserTasks(Reverse(q))]
    /\ ticks' = [k \in Cores |-> ticks[k] + Beats(q, k)]

\* run_futures that runs every task a second time
run_futures_twice(c, q) ==
    /\ log' = [log EXCEPT ![c] = log[c] \o UserTasks(q) \o UserTasks(q)]
    /\ ticks' = [k \in Cores |-> ticks[k] + Beats(q, k)]

\* run_futures that does not run heartbeat futures
run_futures_no_beat(c, q) ==
    /\ log' = [log EXCEPT ![c] = log[c] \o UserTasks(q)]
    /\ ticks' = ticks

\* Reactor::run_futures on the tasks q of the thread polling core c: each
\* runs once, oldest first; a heartbeat future adds one to its counter
run_futures(c, q) ==
    /\ log' = [log EXCEPT ![c] = log[c] \o UserTasks(q)]
    /\ ticks' = [k \in Cores |-> ticks[k] + Beats(q, k)]

\* a step of a poll: a task run ("user", "hb"), a thread polled ("poll")
\* or a thread moved from incoming to threads ("adopt")
Event(ev, x) == [ev |-> ev, x |-> x]

TaskEvents(q) == [k \in 1 .. Len(q) |-> Event(q[k].kind, q[k].id)]

ThreadEvents(ev, ts) == [k \in 1 .. Len(ts) |-> Event(ev, ts[k])]

RECURSIVE Repeat(_, _)
Repeat(q, n) == IF n = 0 THEN << >> ELSE q \o Repeat(q, n - 1)

\* poll_once that adopts the incoming threads before it polls
poll_once_adopts_first(c) ==
    TaskEvents(rx[c])
       \o ThreadEvents("adopt", incoming[c])
       \o ThreadEvents("poll", threads[c] \o incoming[c])

\* poll_once that polls the threads before it runs the futures
poll_once_threads_first(c) ==
    ThreadEvents("poll", threads[c])
       \o TaskEvents(rx[c])
       \o ThreadEvents("adopt", incoming[c])

\* Reactor::poll_once of core c, step by step: receive_futures and
\* run_futures, every thread polled, add_incoming
poll_once(c) ==
    TaskEvents(rx[c])
       \o ThreadEvents("poll", threads[c])
       \o ThreadEvents("adopt", incoming[c])

\* Reactor::poll_times(times) of core c, step by step: the threads polled
\* times times, receive_futures and run_futures, add_incoming
poll_times(c, times) ==
    Repeat(ThreadEvents("poll", threads[c]), times)
       \o TaskEvents(rx[c])
       \o ThreadEvents("adopt", incoming[c])

\* the record of a poll that follows the poll p
Pass(fn, p, ev) == [fn |-> fn, seq |-> 1 - p.seq, ev |-> ev]

\* Reactor::new for every core, no thread created yet
ReactorInit ==
    /\ flags = [c \in Cores |-> "Init"]
    /\ rpc = [c \in Cores |-> "idle"]
    /\ delayEnv \in BOOLEAN
    /\ futDone = FALSE
    /\ threads = [c \in Cores |-> << >>]
    /\ incoming = [c \in Cores |-> << >>]
    /\ tcreated = {}
    /\ texited = {}
    /\ tdestroyed = [t \in Threads |-> 0]

\* Reactor::poll up to the call of poll_reactor, on a core whose OS thread
\* is not in the loop (never launched, or returned from it)
Launch(c) ==
    /\ rpc[c] \in {"idle", "exited"}
    /\ set_state(c, StartState)
    /\ rpc' = [rpc EXCEPT ![c] = "loop"]
    /\ UNCHANGED <<delayEnv, futDone, threads, incoming,
                   tcreated, texited, tdestroyed>>
    /\ UNCHANGED chanVars
    /\ UNCHANGED <<futVars, monVars, blkVars>>

\* poll_reactor: the match on get_state() at the top of the loop
LoopTop(c) ==
    /\ rpc[c] = "loop"
    /\ rpc' = [rpc EXCEPT ![c] =
                  CASE flags[c] \in {"Running", "Delayed"} -> "polling"
                    [] flags[c] = "Shutdown" -> "exited"
                    [] OTHER -> "panic"]
    /\ UNCHANGED <<flags, delayEnv, futDone, threads, incoming,
                   tcreated, texited, tdestroyed>>
    /\ UNCHANGED chanVars
    /\ UNCHANGED <<futVars, monVars, blkVars>>

\* poll_reactor: poll_once() followed by destroy_exited()
LoopIteration(c) ==
    /\ rpc[c] = "polling"
    /\ receive_futures(c)
    /\ run_futures(c, rx[c])
    /\ LET adopted == threads[c] \o incoming[c] IN
       /\ threads' = [threads EXCEPT ![c] = Remaining(adopted)]
       /\ incoming' = [incoming EXCEPT ![c] = << >>]
       /\ tdestroyed' = [t \in Threads |->
                           IF t \in Exited(adopted)
                           THEN tdestroyed[t] + 1 ELSE tdestroyed[t]]
    /\ rpc' = [rpc EXCEPT ![c] = "loop"]
    /\ UNCHANGED <<flags, delayEnv, futDone, tcreated, texited>>
    /\ UNCHANGED chanVars
    /\ UNCHANGED <<sent, monVars, blkVars>>

\* an iteration of poll_reactor, the steps of its poll_once not recorded
LoopBody(c) == LoopIteration(c) /\ UNCHANGED pass

\* an iteration of poll_reactor, the steps of its poll_once recorded
TracedLoopBody(c) ==
    /\ LoopIteration(c)
    /\ pass' = [pass EXCEPT ![c] = Pass("poll_once", pass[c], poll_once(c))]

\* Reactor::running
Running(c) ==
    /\ set_state(c, "Running")
    /\ UNCHANGED <<rpc, delayEnv, futDone, threads, incoming,
                   tcreated, texited, tdestroyed>>
    /\ UNCHANGED chanVars
    /\ UNCHANGED <<futVars, monVars, blkVars>>

\* Reactor::developer_delayed
DeveloperDelayed(c) ==
    /\ set_state(c, "Delayed")
    /\ UNCHANGED <<rpc, delayEnv, futDone, threads, incoming,
                   tcreated, texited, tdestroyed>>
    /\ UNCHANGED chanVars
    /\ UNCHANGED <<futVars, monVars, blkVars>>

\* Reactor::shutdown
Shutdown(c) ==
    /\ set_state(c, "Shutdown")
    /\ UNCHANGED <<rpc, delayEnv, futDone, threads, incoming,
                   tcreated, texited, tdestroyed>>
    /\ UNCHANGED chanVars
    /\ UNCHANGED <<futVars, monVars, blkVars>>

\* impl Future for &'static Reactor: one poll of the master reactor
ReactorPoll ==
    LET c == FirstCore IN
    /\ rpc[c] = "idle"
    /\ ~futDone
    /\ CASE flags[c] = "Running" ->
              \* poll_times(3)
              /\ receive_futures(c)
              /\ run_futures(c, rx[c])
              /\ add_incoming(c)
              /\ UNCHANGED <<flags, futDone, tdestroyed>>
         [] flags[c] = "Delayed" ->
              \* poll_once()
              /\ receive_futures(c)
              /\ run_futures(c, rx[c])
              /\ add_incoming(c)
              /\ UNCHANGED <<flags, futDone, tdestroyed>>
         [] flags[c] = "Shutdown" ->
              \* every thread is popped, waited for and destroyed
              /\ threads' = [threads EXCEPT ![c] = << >>]
              /\ tdestroyed' = [t \in Threads |->
                                  IF \E k \in 1 .. Len(threads[c]) :
                                        threads[c][k] = t
                                  THEN tdestroyed[t] + 1 ELSE tdestroyed[t]]
              /\ futDone' = TRUE
              /\ UNCHANGED <<flags, incoming, rx, log, ticks>>
         [] flags[c] = "Init" ->
              /\ set_state(c, StartState)
              /\ UNCHANGED <<futDone, threads, incoming, tdestroyed,
                             rx, log, ticks>>
    /\ UNCHANGED <<rpc, delayEnv, tcreated, texited>>
    /\ UNCHANGED chanVars
    /\ UNCHANGED <<sent, monVars, blkVars>>

\* a poll of the master reactor, the steps of its poll not recorded
FuturePoll == ReactorPoll /\ UNCHANGED pass

\* a poll of the master reactor, the steps of its poll recorded
TracedFuturePoll ==
    /\ ReactorPoll
    /\ pass' = [pass EXCEPT
                   ![FirstCore] =
                      CASE flags[FirstCore] = "Running" ->
                             Pass("poll_times", pass[FirstCore],
                                  poll_times(FirstCore, 3))
                        [] flags[FirstCore] = "Delayed" ->
                             Pass("poll_once", pass[FirstCore],
                                  poll_once(FirstCore))
                        [] OTHER -> pass[FirstCore]]

\* the cpus a cpumask can name: the cores, and a cpu without a reactor
Cpus == 1 .. (NumCores + 1)

\* spdk_thread_op
ThreadOps == {"SPDK_THREAD_OP_NEW", "SPDK_THREAD_OP_RESCHED"}

\* Reactors::can_op
can_op(op) == op = "SPDK_THREAD_OP_NEW"

\* schedule that takes the last reactor whose core is in the cpumask
schedule_last(t, mask, inc) ==
    IF mask \cap Cores = {}
    THEN [incoming |-> inc, ret |-> 1]
    ELSE LET c == CHOOSE x \in mask \cap Cores :
                      \A y \in mask \cap Cores : x >= y IN
         [incoming |-> [inc EXCEPT ![c] = Append(inc[c], t)], ret |-> 0]

\* schedule that pushes the thread to every reactor in the cpumask
schedule_all(t, mask, inc) ==
    IF mask \cap Cores = {}
    THEN [incoming |-> inc, ret |-> 1]
    ELSE [incoming |-> [c \in Cores |-> IF c \in mask
                                        THEN Append(inc[c], t) ELSE inc[c]],
          ret |-> 0]

\* Reactors::schedule: the first reactor whose core is in the cpumask gets
\* the thread in its incoming queue; the new queues and the value returned
schedule(t, mask, inc) ==
    IF mask \cap Cores = {}
    THEN [incoming |-> inc, ret |-> 1]
    ELSE LET c == CHOOSE x \in mask \cap Cores :
                      \A y \in mask \cap Cores : x <= y IN
         [incoming |-> [inc EXCEPT ![c] = Append(inc[c], t)], ret |-> 0]

\* Reactors::do_op
do_op(t, mask, op, inc) ==
    IF op = "SPDK_THREAD_OP_NEW"
    THEN schedule(t, mask, inc)
    ELSE [incoming |-> inc, ret |-> 0 - 1]

\* the thread library calls do_op for a thread a subsystem creates, when
\* can_op answers that the op is supported
Schedule ==
    /\ \E t \in Threads \ tcreated, mask \in SUBSET Cpus,
          op \in {o \in ThreadOps : can_op(o)} :
          /\ incoming' = do_op(t, mask, op, incoming).incoming
          /\ tcreated' = tcreated \cup {t}
    /\ UNCHANGED <<flags, rpc, delayEnv, futDone, threads,
                   texited, tdestroyed>>
    /\ UNCHANGED chanVars
    /\ UNCHANGED <<futVars, monVars, blkVars>>

\* the cores on which thread t is in the threads deque or in incoming
Owners(t) == {c \in Cores : t \in Range(threads[c]) \cup Range(incoming[c])}

\* a thread some reactor was given exits
ThreadExit ==
    /\ \E t \in tcreated \ texited :
          /\ Owners(t) # {}
          /\ texited' = texited \cup {t}
    /\ UNCHANGED <<flags, rpc, delayEnv, futDone, threads, incoming,
                   tcreated, tdestroyed>>
    /\ UNCHANGED chanVars
    /\ UNCHANGED <<futVars, monVars, blkVars>>

\* a caller on core from sends a future to the reactor of core c
SendFuture ==
    /\ sent < MaxFutures
    /\ \E from \in Cores, c \in Cores :
          send_future(c, UserFuture(sent + 1, from, c))
    /\ sent' = sent + 1
    /\ UNCHANGED <<log, ticks, pass>>
    /\ UNCHANGED <<chanVars, reactorVars, monVars, blkVars>>

ReactorNext ==
    \/ \E c \in Cores : Launch(c)
    \/ \E c \in Cores : LoopTop(c)
    \/ \E c \in Cores : LoopBody(c)
    \/ \E c \in Cores : Running(c)
    \/ \E c \in Cores : DeveloperDelayed(c)
    \/ \E c \in Cores : Shutdown(c)
    \/ FuturePoll
    \/ Schedule
    \/ ThreadExit

(***************************************************************************)
(* Specifications                                                          *)
(***************************************************************************)
vars == <<chanVars, reactorVars, futVars, monVars, blkVars>>

\* the reactors, before Reactors::init, while the channel is exercised
ReactorIdle ==
    /\ flags = [c \in Cores |-> "Init"]
    /\ rpc = [c \in Cores |-> "idle"]
    /\ delayEnv = FALSE
    /\ futDone = FALSE
    /\ threads = [c \in Cores |-> << >>]
    /\ incoming = [c \in Cores |-> << >>]
    /\ tcreated = {}
    /\ texited = {}
    /\ tdestroyed = [t \in Threads |-> 0]

\* no channel exists while the reactors are exercised
ChannelIdle ==
    /\ children = [i \in ChildIds |-> [state |-> "Open", dev |-> TRUE]]
    /\ readers = << >>
    /\ writers = << >>
    /\ previous = 0
    /\ alive = FALSE
    /\ removed = {}
    /\ lastOp = NoOp
    /\ held = {}
    /\ misdrop = FALSE

\* no future has been sent
FutureInit ==
    /\ rx = [c \in Cores |-> << >>]
    /\ sent = 0
    /\ log = [c \in Cores |-> << >>]
    /\ ticks = [c \in Cores |-> 0]
    /\ pass = [c \in Cores |-> [fn |-> "none", seq |-> 0, ev |-> << >>]]

\* reactor_monitor_loop has not been started
MonitorIdle ==
    /\ tick = 0
    /\ frozen = [c \in Cores |-> FALSE]
    /\ mpc = "off"
    /\ timeout = REACTOR_HEARTBEAT_TIMEOUT
    /\ report = [c \in Cores |-> "none"]

\* nothing runs on the primary core's OS thread
BlockOnIdle ==
    /\ current = NoThread
    /\ stack = << >>
    /\ panicked = FALSE
    /\ queue = << >>
    /\ spawned = 0

\* a channel on a nexus with all children open; no reactor is launched
Init ==
    ChannelInit /\ ReactorIdle /\ FutureInit /\ MonitorIdle /\ BlockOnIdle

\* the reactors after Reactors::init; no channel exists
ReactorsInit ==
    ReactorInit /\ ChannelIdle /\ FutureInit /\ MonitorIdle /\ BlockOnIdle

\* the nexus channel of one core and the children of its nexus
Spec == Init /\ [][ChannelNext]_vars

\* the reactors
ReactorSpec == ReactorsInit /\ [][ReactorNext]_vars

\* the values of freeze_timeout: None (the default) and Some(0 .. default)
Timeouts == 0 .. REACTOR_HEARTBEAT_TIMEOUT

\* reactor_monitor_loop up to its loop: no reactor is frozen
MonitorInit ==
    /\ tick = 0
    /\ frozen = [c \in Cores |-> FALSE]
    /\ mpc = "send"
    /\ timeout \in Timeouts
    /\ report = [c \in Cores |-> "none"]

\* send phase that leaves the counter of a frozen reactor alone
MonitorSend_no_adjust ==
    /\ mpc = "send"
    /\ tick < MaxTick
    /\ rx' = [c \in Cores |->
                IF frozen[c] THEN rx[c] ELSE Append(rx[c], Heartbeat(c))]
    /\ ticks' = ticks
    /\ mpc' = "wait"
    /\ UNCHANGED <<tick, frozen, timeout, report, sent, log, pass>>
    /\ UNCHANGED <<chanVars, reactorVars, blkVars>>

\* send phase that sends a heartbeat to frozen reactors as well
MonitorSend_always ==
    /\ mpc = "send"
    /\ tick < MaxTick
    /\ rx' = [c \in Cores |-> Append(rx[c], Heartbeat(c))]
    /\ ticks' = ticks
    /\ mpc' = "wait"
    /\ UNCHANGED <<tick, frozen, timeout, report, sent, log, pass>>
    /\ UNCHANGED <<chanVars, reactorVars, blkVars>>

\* reactor_monitor_loop: a heartbeat future is sent to every reactor that
\* is not frozen, the counter of a frozen one is adjusted
MonitorSend ==
    /\ mpc = "send"
    /\ tick < MaxTick
    /\ rx' = [c \in Cores |->
                IF frozen[c] THEN rx[c] ELSE Append(rx[c], Heartbeat(c))]
    /\ ticks' = [c \in Cores |->
                   IF frozen[c] THEN ticks[c] + 1 ELSE ticks[c]]
    /\ mpc' = "wait"
    /\ UNCHANGED <<tick, frozen, timeout, report, sent, log, pass>>
    /\ UNCHANGED <<chanVars, reactorVars, blkVars>>

\* check that marks a reactor frozen one heartbeat late
MonitorCheck_late ==
    /\ mpc = "wait"
    /\ tick' = tick + 1
    /\ frozen' = [c \in Cores |->
                    IF frozen[c]
                    THEN ~(tick' - ticks[c] = 0)
                    ELSE tick' - ticks[c] > timeout]
    /\ report' = [c \in Cores |->
                    CASE frozen[c] /\ ~frozen'[c] -> "healthy"
                      [] ~frozen[c] /\ frozen'[c] -> "frozen"
                      [] OTHER -> report[c]]
    /\ mpc' = "send"
    /\ UNCHANGED <<timeout, futVars>>
    /\ UNCHANGED <<chanVars, reactorVars, blkVars>>

\* check that reports a frozen reactor healthy when a heartbeat has run
MonitorCheck_early ==
    /\ mpc = "wait"
    /\ tick' = tick + 1
    /\ frozen' = [c \in Cores |->
                    IF frozen[c]
                    THEN ~(tick' - ticks[c] < timeout)
                    ELSE tick' - ticks[c] >= timeout]
    /\ report' = [c \in Cores |->
                    CASE frozen[c] /\ ~frozen'[c] -> "healthy"
                      [] ~frozen[c] /\ frozen'[c] -> "frozen"
                      [] OTHER -> report[c]]
    /\ mpc' = "send"
    /\ UNCHANGED <<timeout, futVars>>
    /\ UNCHANGED <<chanVars, reactorVars, blkVars>>

\* reactor_monitor_loop after interval.tick(): tick is incremented and the
\* counter of every reactor is compared with it.  The counter never
\* exceeds tick here (C15 checks it), so the u64 subtraction does not wrap
MonitorCheck ==
    /\ mpc = "wait"
    /\ tick' = tick + 1
    /\ frozen' = [c \in Cores |->
                    IF frozen[c]
                    THEN ~(tick' - ticks[c] = 0)
                    ELSE tick' - ticks[c] >= timeout]
    /\ report' = [c \in Cores |->
                    CASE frozen[c] /\ ~frozen'[c] -> "healthy"
                      [] ~frozen[c] /\ frozen'[c] -> "frozen"
                      [] OTHER -> report[c]]
    /\ mpc' = "send"
    /\ UNCHANGED <<timeout, futVars>>
    /\ UNCHANGED <<chanVars, reactorVars, blkVars>>

\* the health monitor and the reactors it watches
MonitorNext ==
    \/ \E c \in Cores : Launch(c)
    \/ \E c \in Cores : LoopTop(c)
    \/ \E c \in Cores : LoopBody(c)
    \/ MonitorSend
    \/ MonitorCheck

MonitorsInit ==
    ReactorInit /\ ChannelIdle /\ FutureInit /\ MonitorInit /\ BlockOnIdle

MonitorSpec == MonitorsInit /\ [][MonitorNext]_vars

\* the monitor's timer keeps firing and the OS threads in poll_reactor
\* keep running
FairMonitorSpec ==
    /\ MonitorsInit
    /\ [][MonitorNext]_vars
    /\ WF_vars(MonitorSend) /\ WF_vars(MonitorCheck)
    /\ \A c \in Cores : WF_vars(LoopTop(c)) /\ WF_vars(LoopBody(c))

\* spdk_rs::Thread::primary()
Primary == MaxThreads + 1

\* a future whose body calls Reactor::block_on, sent to the master reactor
Caller(id) ==
    [kind |-> "caller", id |-> id, from |-> FirstCore, to |-> FirstCore]

\* the task block_on spawns for its future: the future resolves at its
\* steps-th poll, and calls block_on itself when nest is set
Task(id, steps, nest) ==
    [kind |-> "task", id |-> id, steps |-> steps, nest |-> nest]

\* a call in progress: block_on with the thread it saved, the task it
\* waits for and the task that called it; or poll_once / poll_times in
\* its futures stage
Frame(kind, saved, id, by) ==
    [kind |-> kind, saved |-> saved, id |-> id, by |-> by, ready |-> FALSE]

Top == stack[Len(stack)]

Front(st) == SubSeq(st, 1, Len(st) - 1)

\* the task of block_on call id has run to completion: its handle is Ready
MarkReady(st, id) ==
    [k \in 1 .. Len(st) |->
        IF st[k].kind = "block_on" /\ st[k].id = id
        THEN [st[k] EXCEPT !.ready = TRUE] ELSE st[k]]

\* a poll is iterating over self.threads: poll_once after its futures
\* ("poll_threads"), poll_times before its futures ("times_threads")
Iterating(st) ==
    \E k \in 1 .. Len(st) : st[k].kind \in {"poll_threads", "times_threads"}

\* a RefCell that does not track its borrows
Borrowed_never(st) == FALSE

\* self.threads is borrowed: by a poll that iterates over it, and by
\* poll_times while it runs the futures as well
Borrowed(st) ==
    \E k \in 1 .. Len(st) :
        st[k].kind \in {"poll_threads", "times_threads", "poll_times"}

\* Reactor::block_on up to its loop, called by task by (0: not by a task)
\* with the runnables q queued: the current thread is saved, the primary
\* thread made current, the future spawned and scheduled
block_on(by, q, steps, nest) ==
    /\ stack' = Append(stack, Frame("block_on", current, spawned + 1, by))
    /\ current' = Primary
    /\ queue' = Append(q, Task(spawned + 1, steps, nest))
    /\ spawned' = spawned + 1

\* the reactors after Reactors::init, the primary core's OS thread outside
\* every reactor call, with or without a current thread
BlockOnInit ==
    /\ current \in {NoThread, Primary} \cup Threads
    /\ stack = << >>
    /\ panicked = FALSE
    /\ queue = << >>
    /\ spawned = 0

\* impl Future for &'static Reactor, Init arm: the master picks its state
MasterStart ==
    /\ ~panicked
    /\ stack = << >>
    /\ flags[FirstCore] = "Init"
    /\ set_state(FirstCore, StartState)
    /\ UNCHANGED <<rpc, delayEnv, futDone, threads, incoming,
                   tcreated, texited, tdestroyed>>
    /\ UNCHANGED <<chanVars, futVars, monVars, blkVars>>

\* impl Future for &'static Reactor, Running and Delayed arms: poll_times
\* borrows self.threads and starts to poll them; poll_once starts with
\* receive_futures, which spawns what was sent
MasterPoll ==
    /\ ~panicked
    /\ stack = << >>
    /\ flags[FirstCore] \in {"Running", "Delayed"}
    /\ IF flags[FirstCore] = "Running"
       THEN /\ stack' = <<Frame("times_threads", NoThread, 0, 0)>>
            /\ UNCHANGED <<queue, rx>>
       ELSE /\ stack' = <<Frame("poll_once", NoThread, 0, 0)>>
            /\ queue' = queue \o rx[FirstCore]
            /\ receive_futures(FirstCore)
    /\ UNCHANGED <<current, panicked, spawned, sent, log, ticks, pass>>
    /\ UNCHANGED <<chanVars, reactorVars, monVars>>

\* poll_once: QUEUE is empty, self.threads is borrowed and the iteration
\* over the threads starts
BeginThreads ==
    /\ ~panicked
    /\ stack # << >>
    /\ Top.kind = "poll_once"
    /\ queue = << >>
    /\ stack' = [stack EXCEPT ![Len(stack)].kind = "poll_threads"]
    /\ UNCHANGED <<current, panicked, queue, spawned>>
    /\ UNCHANGED <<chanVars, reactorVars, futVars, monVars>>

\* poll_times: the iterations over the threads are over, the borrow stays;
\* receive_futures spawns what was sent
EndThreads ==
    /\ ~panicked
    /\ stack # << >>
    /\ Top.kind = "times_threads"
    /\ stack' = [stack EXCEPT ![Len(stack)].kind = "poll_times"]
    /\ queue' = queue \o rx[FirstCore]
    /\ receive_futures(FirstCore)
    /\ UNCHANGED <<current, panicked, spawned, sent, log, ticks, pass>>
    /\ UNCHANGED <<chanVars, reactorVars, monVars>>

\* t.poll() of a thread of the master: a message of the thread calls
\* block_on
ThreadPoll ==
    /\ ~panicked
    /\ stack # << >>
    /\ Top.kind \in {"poll_threads", "times_threads"}
    /\ threads[FirstCore] # << >>
    /\ spawned < MaxBlockOn
    /\ \E steps \in 1 .. MaxSteps : block_on(0, queue, steps, FALSE)
    /\ UNCHANGED panicked
    /\ UNCHANGED <<chanVars, reactorVars, futVars, monVars>>

\* block_on called on the primary core outside the reactor
BlockOnCall ==
    /\ ~panicked
    /\ stack = << >>
    /\ spawned < MaxBlockOn
    /\ \E steps \in 1 .. MaxSteps, nest \in BOOLEAN :
          block_on(0, queue, steps, nest)
    /\ UNCHANGED panicked
    /\ UNCHANGED <<chanVars, reactorVars, futVars, monVars>>

\* block_on: task.poll(cx).  Ready: the primary thread is unset, the saved
\* thread made current again and the output returned, and the task that
\* called block_on completes.  Pending: poll_once starts
TaskPoll ==
    /\ ~panicked
    /\ stack # << >>
    /\ Top.kind = "block_on"
    /\ IF Top.ready
       THEN /\ current' = IF Top.saved # NoThread THEN Top.saved ELSE NoThread
            /\ stack' = MarkReady(Front(stack), Top.by)
            /\ UNCHANGED <<queue, rx>>
       ELSE /\ stack' = Append(stack, Frame("poll_once", NoThread, 0, 0))
            /\ queue' = queue \o rx[FirstCore]
            /\ receive_futures(FirstCore)
            /\ UNCHANGED current
    /\ UNCHANGED <<panicked, spawned, sent, log, ticks, pass>>
    /\ UNCHANGED <<chanVars, reactorVars, monVars>>

\* run_futures: the next runnable of QUEUE is run
RunFuture ==
    /\ ~panicked
    /\ stack # << >>
    /\ Top.kind \in {"poll_once", "poll_times"}
    /\ queue # << >>
    /\ LET h == Head(queue) IN
       CASE h.kind = "caller" ->
              block_on(0, Tail(queue), 1, FALSE)
         [] h.kind = "task" /\ h.nest ->
              \E steps \in 1 .. MaxSteps :
                 block_on(h.id, Tail(queue), steps, FALSE)
         [] h.kind = "task" /\ ~h.nest /\ h.steps > 1 ->
              \* Pending, and woken at once
              /\ queue' = Append(Tail(queue), [h EXCEPT !.steps = @ - 1])
              /\ UNCHANGED <<stack, current, spawned>>
         [] h.kind = "task" /\ ~h.nest /\ h.steps <= 1 ->
              /\ queue' = Tail(queue)
              /\ stack' = MarkReady(stack, h.id)
              /\ UNCHANGED <<current, spawned>>
    /\ UNCHANGED panicked
    /\ UNCHANGED <<chanVars, reactorVars, futVars, monVars>>

\* the end of poll_once / poll_times: the threads are polled and QUEUE is
\* empty, the own borrow of self.threads is dropped and add_incoming runs.
\* Its borrow_mut panics when a thread is in incoming while a poll
\* further out still holds its borrow
PollEnd ==
    /\ ~panicked
    /\ stack # << >>
    /\ \/ Top.kind = "poll_threads"
       \/ Top.kind = "poll_times" /\ queue = << >>
    /\ IF incoming[FirstCore] # << >> /\ Borrowed(Front(stack))
       THEN /\ panicked' = TRUE
            /\ UNCHANGED <<stack, threads, incoming>>
       ELSE /\ add_incoming(FirstCore)
            /\ stack' = Front(stack)
            /\ UNCHANGED panicked
    /\ UNCHANGED <<current, queue, spawned>>
    /\ UNCHANGED <<flags, rpc, delayEnv, futDone,
                   tcreated, texited, tdestroyed>>
    /\ UNCHANGED <<chanVars, futVars, monVars>>

\* a future that calls block_on is sent to the master reactor
SendCaller ==
    /\ ~panicked
    /\ sent < MaxFutures
    /\ send_future(FirstCore, Caller(sent + 1))
    /\ sent' = sent + 1
    /\ UNCHANGED <<log, ticks, pass>>
    /\ UNCHANGED <<chanVars, reactorVars, monVars, blkVars>>

\* block_on on the primary core, the master reactor polled as a future
BlockOnNext ==
    \/ MasterStart
    \/ MasterPoll
    \/ BlockOnCall
    \/ TaskPoll
    \/ RunFuture
    \/ BeginThreads
    \/ EndThreads
    \/ ThreadPoll
    \/ PollEnd
    \/ SendCaller
    \/ (~panicked /\ Schedule)

BlockOnsInit ==
    ReactorInit /\ ChannelIdle /\ FutureInit /\ MonitorIdle /\ BlockOnInit

BlockOnSpec == BlockOnsInit /\ [][BlockOnNext]_vars

\* futures sent across cores
FutureNext ==
    \/ \E c \in Cores : Launch(c)
    \/ \E c \in Cores : LoopTop(c)
    \/ \E c \in Cores : LoopBody(c)
    \/ \E c \in Cores : Shutdown(c)
    \/ FuturePoll
    \/ SendFuture

FutureSpec == ReactorsInit /\ [][FutureNext]_vars

\* futures sent across cores; the OS thread in poll_reactor keeps running
FairFutureSpec ==
    /\ ReactorsInit
    /\ [][FutureNext]_vars
    /\ \A c \in Cores : WF_vars(LoopTop(c)) /\ WF_vars(LoopBody(c))

\* the reactors; the OS thread in poll_reactor keeps running
FairReactorSpec ==
    /\ ReactorsInit
    /\ [][ReactorNext]_vars
    /\ \A c \in Cores : WF_vars(LoopTop(c)) /\ WF_vars(LoopBody(c))

\* the reactors polling futures and threads, the steps of every poll
\* recorded
PollNext ==
    \/ \E c \in Cores : Launch(c)
    \/ \E c \in Cores : LoopTop(c)
    \/ \E c \in Cores : TracedLoopBody(c)
    \/ TracedFuturePoll
    \/ Schedule
    \/ SendFuture

PollSpec == ReactorsInit /\ [][PollNext]_vars

\* the reactors with threads that exit, until shutdown, the steps of
\* every poll recorded
ExitNext ==
    \/ \E c \in Cores : Launch(c)
    \/ \E c \in Cores : LoopTop(c)
    \/ \E c \in Cores : TracedLoopBody(c)
    \/ \E c \in Cores : Shutdown(c)
    \/ TracedFuturePoll
    \/ Schedule
    \/ ThreadExit

ExitSpec == ReactorsInit /\ [][ExitNext]_vars

(***************************************************************************)
(* Properties of the nexus channel                                         *)
(***************************************************************************)
StateOf(name) == children[ChildOf(name)].state

\* every handle belongs to a child that may be read resp. written
HandlesValid ==
    /\ \A k \in 1 .. Len(readers) :
          StateOf(device_name(readers[k])) = "Open"
    /\ \A k \in 1 .. Len(writers) :
          StateOf(device_name(writers[k])) \in {"Open", "Rebuilding"}

\* C1: in every reachable state of a channel, readers is empty or
\* previous < len(readers)
C1_CursorInRange == Len(readers) = 0 \/ previous < Len(readers)

\* a select has wrapped or advanced the cursor to the last of two readers
C1_Witness ==
    /\ lastOp.op = "child_select"
    /\ Len(readers) >= 2
    /\ previous = Len(readers) - 1

\* the values of n consecutive child_select calls on rs from cursor prev
RECURSIVE Selected(_, _, _)
Selected(rs, prev, n) ==
    IF n = 0 THEN << >>
    ELSE LET r == child_select(rs, prev) IN
         <<r.ret>> \o Selected(rs, r.previous, n - 1)

\* s lists every index of rs once, each the cyclic successor of the one
\* before it
CyclicOnce(s, rs) ==
    /\ {s[k] : k \in 1 .. Len(s)} = 0 .. (Len(rs) - 1)
    /\ \A k \in 1 .. (Len(s) - 1) : s[k + 1] = (s[k] + 1) % Len(rs)

\* C2: a child_select step returns None iff readers is empty; otherwise the
\* cursor becomes (previous + 1) mod len(readers) and is the value returned,
\* the vectors are untouched, and len(readers) consecutive calls return
\* every reader index once, in cyclic order
C2_RoundRobin ==
    /\ [][lastOp'.op = "child_select" =>
            /\ (lastOp'.idx = None) <=> (Len(readers) = 0)
            /\ Len(readers) # 0 =>
                  /\ previous' = (previous + 1) % Len(readers)
                  /\ lastOp'.idx = previous'
            /\ readers' = readers /\ writers' = writers]_vars
    /\ [](Len(readers) # 0 =>
            /\ CyclicOnce(Selected(readers, previous, Len(readers)), readers)
            /\ Selected(readers, previous, 2 * Len(readers))
                  = Selected(readers, previous, Len(readers))
                    \o Selected(readers, previous, Len(readers)))

\* a select on two readers has wrapped around to index 0
C2_Witness ==
    /\ lastOp.op = "child_select"
    /\ lastOp.idx = 0
    /\ Len(readers) = 2

\* C3: right after refresh every reader belongs to an Open child, every
\* writer to an Open or Rebuilding child, and no Rebuilding child has a
\* reader, whichever acquisitions failed
C3_AfterRefresh ==
    lastOp.op = "refresh" =>
        /\ HandlesValid
        /\ \A i \in ChildIds :
              children[i].state = "Rebuilding" =>
                  DevName(i) \notin NameSet(readers)

\* a refresh in which an acquisition failed left a writer for a Rebuilding
\* child and no reader
C3_Witness ==
    /\ lastOp.op = "refresh"
    /\ ~lastOp.ok
    /\ Len(readers) = 0
    /\ Len(writers) = 1
    /\ StateOf(device_name(writers[1])) = "Rebuilding"
    /\ \E i \in ChildIds : children[i].state = "FaultedCantOpen"

\* C4, as claimed: in every reachable state every reader belongs to an Open
\* child and every writer to an Open or Rebuilding child
C4_AlwaysValid == HandlesValid

\* C4, amended: the handles are valid right after new and refresh, and
\* child_select, remove_device and clear keep them valid; only fault_device
\* and a child state change from outside leave a stale handle behind
C4_ValidUntilFault ==
    /\ [](lastOp.op \in {"new", "refresh"} => HandlesValid)
    /\ [][(HandlesValid
           /\ lastOp'.op \in {"child_select", "remove_device", "clear"})
          => HandlesValid']_vars

\* remove_device faulted one child and the other keeps its valid handles
C4_Witness ==
    /\ lastOp.op = "remove_device"
    /\ lastOp.ok
    /\ Len(readers) = 1
    /\ HandlesValid

\* the device names of the children in state st, in child order
NamesInState(st) ==
    LET ids == SelectSeq(ChildIdSeq, LAMBDA i : children[i].state = st) IN
    [k \in 1 .. Len(ids) |-> DevName(ids[k])]

\* C5, as claimed: a refresh directly after a refresh, with no child state
\* change in between and every acquisition succeeding both times, leaves
\* the device names of readers and writers as the first refresh left them
C5_RefreshTwice ==
    [][(lastOp.op = "refresh" /\ lastOp.ok
        /\ lastOp'.op = "refresh" /\ lastOp'.ok)
       => /\ NamesOf(readers') = NamesOf(readers)
          /\ NamesOf(writers') = NamesOf(writers)]_vars

\* C6, as claimed: with some children Open and some Rebuilding, a refresh
\* whose acquisitions all succeed gives readers = the Open children and
\* writers = the Open children followed by the Rebuilding ones
C6_RebuildTee ==
    (/\ lastOp.op = "refresh"
     /\ lastOp.ok
     /\ \E i \in ChildIds : children[i].state = "Open"
     /\ \E i \in ChildIds : children[i].state = "Rebuilding")
    => /\ NamesOf(readers) = NamesInState("Open")
       /\ NamesOf(writers) = NamesInState("Open") \o NamesInState("Rebuilding")

\* seq without its entries equal to x
RECURSIVE Without(_, _)
Without(seq, x) ==
    IF seq = << >> THEN << >>
    ELSE IF Head(seq) = x THEN Without(Tail(seq), x)
         ELSE <<Head(seq)>> \o Without(Tail(seq), x)

\* a step moved some child from Open to Faulted(IoError)
FaultedNow ==
    \E i \in ChildIds : /\ children[i].state = "Open"
                        /\ children'[i].state = "FaultedIoError"

\* C7: remove_device(name) keeps exactly the handles of the other devices,
\* in order, sets previous to 0 and returns what the fault attempt
\* returned; until the vectors are rebuilt no child_select returns an index
\* whose reader has a removed name
C7_RemoveDevice ==
    /\ [][lastOp'.op = "remove_device" =>
            /\ NamesOf(readers') = Without(NamesOf(readers), lastOp'.name)
            /\ NamesOf(writers') = Without(NamesOf(writers), lastOp'.name)
            /\ previous' = 0
            /\ lastOp'.ok <=> FaultedNow]_vars
    /\ []((lastOp.op = "child_select" /\ lastOp.idx # None) =>
            /\ lastOp.idx + 1 \in 1 .. Len(readers)
            /\ device_name(readers[lastOp.idx + 1]) \notin removed)

\* a select returned the remaining reader after the other was removed
C7_Witness ==
    /\ lastOp.op = "child_select"
    /\ lastOp.idx = 0
    /\ Len(readers) = 1
    /\ \E i \in ChildIds : /\ DevName(i) \in removed
                           /\ children[i].state = "FaultedIoError"

\* C8: fault_device(name) moves the Open child with that device name, when
\* its device reference is there, to Faulted(IoError) and no other child,
\* returns true iff it moved one, leaves the channel alone, and returns
\* false when called again with nothing changed
C8_FaultDevice ==
    /\ [][lastOp'.op = "fault_device" =>
            /\ \A i \in ChildIds :
                  children'[i].state =
                     IF /\ children[i].state = "Open"
                        /\ DevName(i) = lastOp'.name
                        /\ children[i].dev
                     THEN "FaultedIoError"
                     ELSE children[i].state
            /\ \A i \in ChildIds : children'[i].dev = children[i].dev
            /\ lastOp'.ok <=> FaultedNow]_vars
    /\ [][(/\ lastOp.op = "fault_device"
           /\ lastOp'.op = "fault_device"
           /\ lastOp'.name = lastOp.name)
          => ~lastOp'.ok]_vars

\* fault_device returned true for a child whose reader is still held
C8_Witness ==
    /\ lastOp.op = "fault_device"
    /\ lastOp.ok
    /\ StateOf(lastOp.name) = "FaultedIoError"
    /\ lastOp.name \in NameSet(readers)

\* C9, as claimed: when remove_device(name) dropped a handle of the child
\* (a reader and a writer, or a writer only), the refresh that directly
\* follows brings back no handle for name
C9_NotReintroduced ==
    [][(/\ lastOp.op = "remove_device"
        /\ lastOp.idx > 0
        /\ lastOp'.op = "refresh")
       => lastOp.name \notin (NameSet(readers') \cup NameSet(writers'))]_vars

\* C9, amended: when remove_device(name) dropped a handle of a child that
\* is not Rebuilding, the refresh that directly follows brings back no
\* handle for name, whatever its acquisitions do
C9_FaultedNotReintroduced ==
    [][(/\ lastOp.op = "remove_device"
        /\ lastOp.idx > 0
        /\ StateOf(lastOp.name) # "Rebuilding"
        /\ lastOp'.op = "refresh")
       => lastOp.name \notin (NameSet(readers') \cup NameSet(writers'))]_vars

\* the refresh after remove_device("A") left the handles of B alone
C9_Witness ==
    /\ lastOp.op = "refresh"
    /\ lastOp.after = DevName(1)
    /\ children[1].state = "FaultedIoError"
    /\ NamesOf(readers) = <<DevName(2)>>
    /\ NamesOf(writers) = <<DevName(2)>>

\* both get_io_handle() calls of a new()/refresh() succeed for child c
BothOk(c, a) == get_io_handle(c, a.w) /\ get_io_handle(c, a.r)

HeldNames == {device_name(h) : h \in held}

\* C19: in new() and in refresh(), an Open child for which one of the two
\* acquisitions fails becomes Faulted(CantOpen) and has no handle in the
\* vectors or held elsewhere; every other Open child stays Open with one
\* reader and one writer (the pass goes on and the call completes); in
\* refresh() a Rebuilding child whose writer acquisition fails becomes
\* Faulted(CantOpen) and gets no writer
C19_FailedAcquisition ==
    [][lastOp'.op \in {"new", "refresh"} =>
         \A i \in ChildIds :
            /\ (children[i].state = "Open"
                /\ ~BothOk(children[i], lastOp'.acq[i]))
               => /\ children'[i].state = "FaultedCantOpen"
                  /\ DevName(i) \notin NameSet(readers') \cup NameSet(writers')
                  /\ DevName(i) \notin HeldNames'
            /\ (children[i].state = "Open"
                /\ BothOk(children[i], lastOp'.acq[i]))
               => /\ children'[i].state = "Open"
                  /\ Len(Retired(readers', DevName(i))) = 1
                  /\ Len(Retired(writers', DevName(i))) = 1
            /\ (lastOp'.op = "refresh"
                /\ rebuilding(children[i])
                /\ AddWriteOnly(readers)
                /\ ~get_io_handle(children[i], lastOp'.acq[i].w))
               => /\ children'[i].state = "FaultedCantOpen"
                  /\ DevName(i) \notin NameSet(writers')
                  /\ DevName(i) \notin HeldNames']_vars

\* a refresh got the writer but not the reader of the first child, faulted
\* it, dropped the writer and went on to the second child
C19_Witness ==
    /\ lastOp.op = "refresh"
    /\ lastOp.acq[1].w
    /\ ~lastOp.acq[1].r
    /\ children[1].state = "FaultedCantOpen"
    /\ NamesOf(readers) = <<DevName(2)>>
    /\ NamesOf(writers) = <<DevName(2)>>
    /\ HeldNames = {DevName(2)}

\* C20: refresh replaces: right after it (and after new) the vectors hold
\* only handles acquired by that call and no older handle is still held;
\* at all times no handle is dropped twice or without being held, and the
\* handles acquired and not yet dropped are exactly those in the vectors,
\* each once; after clear both vectors are empty and no handle is held
C20_ReplaceAndRelease ==
    /\ lastOp.op \in {"new", "refresh"} =>
          \A h \in Range(readers) \cup Range(writers) \cup held : h.fresh
    /\ ~misdrop
    /\ held = Range(readers) \cup Range(writers)
    /\ NoDup(readers \o writers)
    /\ lastOp.op = "clear" =>
          readers = << >> /\ writers = << >> /\ held = {}

\* a refresh that followed remove_device on the first child acquired the
\* two handles of the second child anew
C20_Witness ==
    /\ lastOp.op = "refresh"
    /\ lastOp.after = DevName(1)
    /\ held = {Handle(2, "w"), Handle(2, "r")}
    /\ ~misdrop

(***************************************************************************)
(* Properties of the reactor                                               *)
(***************************************************************************)
\* the changes of a reactor's state the specification allows
AllowedChange(from, to) ==
    \/ from = "Init" /\ to \in {"Running", "Delayed"}
    \/ from = "Running" /\ to = "Delayed"
    \/ from = "Delayed" /\ to = "Running"
    \/ from # "Shutdown" /\ to = "Shutdown"

\* C10, as claimed: a reactor's state changes only along Init -> Running or
\* Delayed, Running <-> Delayed and any state -> Shutdown; once Shutdown it
\* never changes again
C10_StateTransitions ==
    [][\A c \in Cores :
          flags'[c] # flags[c] => AllowedChange(flags[c], flags'[c])]_vars

\* the reactor of core c is in its poll loop
InLoop(c) == rpc[c] \in {"loop", "polling"}

\* the step is a poll_once() of poll_reactor on core c
LoopPolled(c) == rpc[c] = "polling" /\ rpc'[c] = "loop"

\* no thread is owned twice: not by two reactors, not twice in a deque or
\* queue, not in the deque and the queue of one reactor
OwnedOnce ==
    /\ \A t \in Threads : Cardinality(Owners(t)) <= 1
    /\ \A c \in Cores : NoDup(threads[c] \o incoming[c])

\* C13, as claimed: a dispatched thread is never owned twice, and every
\* thread in an incoming queue is eventually adopted from it
C13_AlwaysAdopted ==
    /\ []OwnedOnce
    /\ \A t \in Threads, c \in Cores :
          (t \in Range(incoming[c])) ~> (t \in Range(threads[c]))

\* C13, amended: a dispatched thread is never owned twice; a thread enters
\* a threads deque only from the incoming queue of the same reactor; every
\* poll_once of a reactor's loop empties its incoming queue into its deque
\* (an exited thread is destroyed at once); so a thread in incoming leaves
\* it unless the reactor's loop is not running
C13_AdoptedWhenPolling ==
    /\ []OwnedOnce
    /\ [][\A c \in Cores, t \in Threads :
            (t \in Range(threads'[c]) /\ t \notin Range(threads[c]))
               => t \in Range(incoming[c])]_vars
    /\ [][\A c \in Cores :
            LoopPolled(c) =>
               /\ incoming'[c] = << >>
               /\ \A t \in Range(incoming[c]) :
                     t \in Range(threads'[c]) \/ t \in texited]_vars
    /\ \A t \in Threads, c \in Cores :
          (t \in Range(incoming[c]))
             ~> (t \notin Range(incoming[c]) \/ ~InLoop(c))

\* both threads were dispatched to the second reactor, which adopted one
\* before the other arrived
C13_Witness ==
    /\ threads[2] = <<1>>
    /\ incoming[2] = <<2>>
    /\ texited = {}

C17_LoopTerminates ==
    \A c \in Cores :
        (flags[c] = "Shutdown" /\ InLoop(c)) ~> (rpc[c] = "exited")

\* the futures callers have sent so far
SentIds == 1 .. sent

\* how often the future numbered id occurs in the sequence q
Count(q, id) == Cardinality({k \in 1 .. Len(q) : q[k].id = id})

\* how often the reactors have run the future numbered id
Runs(id) ==
    LET n[c \in 0 .. NumCores] ==
            IF c = 0 THEN 0 ELSE n[c - 1] + Count(log[c], id) IN
    n[NumCores]

\* C11: a future sent to reactor r is run by r only, at most once, and is
\* never lost: it is waiting in r's channel or r has run it once; while
\* r's poll loop is running every future in its channel is eventually run
C11_ExecutedOnce ==
    /\ [](\A c \in Cores : \A k \in 1 .. Len(log[c]) : log[c][k].to = c)
    /\ [](\A c \in Cores : \A k \in 1 .. Len(rx[c]) : rx[c][k].to = c)
    /\ [](\A id \in SentIds :
            LET w == Cardinality({c \in Cores : Count(rx[c], id) = 1}) IN
            /\ Runs(id) + w = 1
            /\ \A c \in Cores : Count(rx[c], id) <= 1)
    /\ \A c \in Cores, id \in 1 .. MaxFutures :
          (Count(rx[c], id) = 1) ~> (Count(log[c], id) = 1 \/ ~InLoop(c))

\* the second reactor has run two futures that callers on the first and
\* on the second core sent to it
C11_Witness ==
    /\ Len(log[2]) = 2
    /\ log[2][1].from = 1
    /\ log[2][2].from = 2
    /\ InLoop(2)

\* any two futures of one sender occur in q in the order they were sent
SenderOrder(q) ==
    \A j, k \in 1 .. Len(q) :
        (j < k /\ q[j].from = q[k].from) => q[j].id < q[k].id

\* C12: a poll_once runs every future that is in the reactor's channel
\* when it starts, in channel order, and leaves the channel empty; the
\* futures of one sender are run in the order they were sent
C12_OnePollInOrder ==
    /\ [][\A c \in Cores :
            /\ LoopPolled(c) => rx'[c] = << >>
            /\ (rx[c] # << >> /\ rx'[c] = << >>) =>
                  log'[c] = log[c] \o UserTasks(rx[c])]_vars
    /\ [](\A c \in Cores : SenderOrder(log[c] \o rx[c]))

\* the second reactor has run, in the order they were sent, the two
\* futures the first core had sent to it
C12_Witness ==
    /\ Len(log[2]) = 2
    /\ log[2][1].from = 1
    /\ log[2][2].from = 1
    /\ log[2][1].id = 1
    /\ rpc[2] = "loop"
    /\ sent = 2

\* the heartbeat futures sent to core c that have not run
Owed(c) == Beats(rx[c], c)

\* the step is a check of the health monitor
Checked == tick' = tick + 1

\* tick - tick_counter as the next check of the monitor will see it: the
\* number of heartbeats the reactor has not run
DeltaIsOwed ==
    \A c \in Cores :
        /\ ticks[c] <= tick + (IF mpc = "wait" THEN 1 ELSE 0)
        /\ tick + (IF mpc = "wait" THEN 1 ELSE 0) - ticks[c] = Owed(c)

\* C15, as claimed: a check marks a reactor that is not frozen as frozen
\* iff tick - tick_counter >= T, which is the number of heartbeats it has
\* not run; a reactor that has run every heartbeat is not marked; a
\* reactor that ran none is frozen from the T-th check on
C15_MarkedFrozen ==
    /\ []DeltaIsOwed
    /\ [][Checked =>
            \A c \in Cores :
               ~frozen[c] =>
                  /\ frozen'[c] <=> (tick' - ticks[c] >= timeout)
                  /\ frozen'[c] <=> (Owed(c) >= timeout)
                  /\ Owed(c) = 0 => ~frozen'[c]]_vars
    /\ [](\A c \in Cores :
            (mpc = "send" /\ ticks[c] = 0 /\ timeout >= 1) =>
               (frozen[c] <=> (tick >= timeout)))

\* C15, amended: the same for T >= 1; with T = 0 every reactor that is not
\* frozen is marked frozen at every check, whatever it has run
C15_MarkedFrozenPositive ==
    /\ []DeltaIsOwed
    /\ [][Checked =>
            \A c \in Cores :
               ~frozen[c] =>
                  /\ frozen'[c] <=> (tick' - ticks[c] >= timeout)
                  /\ frozen'[c] <=> (Owed(c) >= timeout)
                  /\ (Owed(c) = 0 /\ timeout >= 1) => ~frozen'[c]
                  /\ timeout = 0 => frozen'[c]]_vars
    /\ [](\A c \in Cores :
            (mpc = "send" /\ ticks[c] = 0 /\ timeout >= 1) =>
               (frozen[c] <=> (tick >= timeout)))

\* with T = 3 the second reactor ran no heartbeat and was marked frozen at
\* the third check; the first reactor ran all of its heartbeats
C15_Witness ==
    /\ timeout = 3
    /\ tick = 3
    /\ mpc = "send"
    /\ frozen[2]
    /\ ticks[2] = 0
    /\ report[2] = "frozen"
    /\ ~frozen[1]
    /\ ticks[1] = 3

InBlockOn == \E k \in 1 .. Len(stack) : stack[k].kind = "block_on"

\* the step is the return of the innermost block_on call
Returns ==
    /\ stack # << >>
    /\ Top.kind = "block_on"
    /\ Len(stack') = Len(stack) - 1

\* C18 without its claim that block_on returns: while block_on runs the
\* primary thread is current; block_on does nothing but poll_once until
\* its task is ready; it returns only then, with the thread current that
\* was current at the call, nested or not
C18_ContextRestored ==
    /\ [](InBlockOn => current = Primary)
    /\ [][(stack # << >> /\ Top.kind = "block_on" /\ stack' # stack) =>
             IF Top.ready
             THEN Returns /\ current' = Top.saved
             ELSE /\ Len(stack') = Len(stack) + 1
                  /\ stack'[Len(stack')].kind = "poll_once"]_vars

\* C18: block_on sets the primary thread current, runs poll_once until
\* its future has resolved, and returns: no poll_once it runs panics, and
\* on return the thread that was current before the call is current
C18_BlockOn ==
    /\ []~panicked
    /\ C18_ContextRestored

\* a nested block_on has returned into the outer one, which was called
\* with a thread current
C18_Witness ==
    /\ spawned = 2
    /\ Len(stack) = 2
    /\ stack[1].kind = "block_on"
    /\ stack[1].saved \in Threads
    /\ stack[1].ready
    /\ stack[2].kind = "poll_once"
    /\ current = Primary

\* C24: at every check of the health monitor, for every reactor, frozen or
\* not, tick_counter <= tick, so tick - tick_counter does not underflow,
\* and tick - tick_counter is the number of heartbeat futures queued on
\* the reactor that have not run
C24_DeltaCountsOwed ==
    [][Checked =>
         \A c \in Cores :
            /\ ticks[c] <= tick'
            /\ tick' - ticks[c] = Beats(rx[c], c)]_vars

\* a check is about to compare the counters while the second reactor is
\* frozen, its counter was adjusted by the monitor and it still owes a
\* heartbeat, and the first reactor is not frozen and has run heartbeats
C24_Witness ==
    /\ mpc = "wait"
    /\ frozen[2]
    /\ ticks[2] > 0
    /\ Beats(rx[2], 2) > 0
    /\ ~frozen[1]
    /\ ticks[1] > 0
    /\ tick >= 2

\* C28: for T >= 1 no reactor ever has more than T heartbeat futures
\* queued and not run
C28_OwedBounded ==
    timeout >= 1 => \A c \in Cores : Beats(rx[c], c) <= timeout

\* a stalled reactor is frozen with T = 2 heartbeats in its inbox after
\* more than T checks
C28_Witness ==
    /\ timeout = 2
    /\ frozen[2]
    /\ Beats(rx[2], 2) = 2
    /\ tick > 3

\* C25: fault_device leaves readers, writers and previous as they are,
\* and only refresh, remove_device, or the end of the channel changes the
\* readers afterwards: the reader of the child it faulted stays selectable
C25_FaultKeepsHandles ==
    /\ [][lastOp'.op = "fault_device" =>
            /\ readers' = readers
            /\ writers' = writers
            /\ previous' = previous]_vars
    /\ [][lastOp'.op \notin {"refresh", "remove_device", "clear", "new"}
            => readers' = readers]_vars

\* fault_device has returned true and the next child_select returns the
\* reader of the child it faulted
C25_Witness ==
    /\ lastOp.op = "fault_device"
    /\ lastOp.ok
    /\ StateOf(lastOp.name) = "FaultedIoError"
    /\ child_select(readers, previous).ret # None
    /\ device_name(readers[child_select(readers, previous).ret + 1])
          = lastOp.name

\* the devices of the writers that have no reader at the same index
TailNames(rs, ws) == {device_name(ws[k]) : k \in (Len(rs) + 1) .. Len(ws)}

\* C26: the device names of the readers are a prefix of those of the
\* writers, and a writer beyond that prefix is put there only by a refresh,
\* for a child that is Rebuilding
C26_ReadersPrefix ==
    /\ [](/\ Len(readers) <= Len(writers)
          /\ \A k \in 1 .. Len(readers) :
                device_name(readers[k]) = device_name(writers[k]))
    /\ [][IF lastOp'.op = "refresh"
          THEN \A n \in TailNames(readers', writers') :
                  rebuilding(children'[ChildOf(n)])
          ELSE TailNames(readers', writers')
                  \subseteq TailNames(readers, writers)]_vars

\* a refresh left a reader and a writer for the first child and a writer
\* only for the second, which is Rebuilding
C26_Witness ==
    /\ lastOp.op = "refresh"
    /\ Len(readers) = 1
    /\ Len(writers) = 2
    /\ rebuilding(children[2])

\* the step is a poll of the reactor of core c
Polls(c) == pass'[c].seq # pass[c].seq

\* the stage of poll_once an event belongs to
Stage(ev) == CASE ev \in {"user", "hb"} -> 1
               [] ev = "poll" -> 2
               [] ev = "adopt" -> 3

\* the threads an event sequence polls
Polled(e) == {e[k].x : k \in {j \in 1 .. Len(e) : e[j].ev = "poll"}}

\* C21: a poll_once runs every future sent to the reactor, oldest first,
\* then polls every thread of threads once in the order of the deque, then
\* appends the threads of incoming to threads; a thread it adopts is not
\* polled in it and stands behind the threads adopted before
C21_PollOnceOrder ==
    [][\A c \in Cores :
          (Polls(c) /\ pass'[c].fn = "poll_once") =>
             LET e == pass'[c].ev IN
             /\ \A i, j \in 1 .. Len(e) :
                   i < j => Stage(e[i].ev) <= Stage(e[j].ev)
             /\ SelectSeq(e, LAMBDA x : Stage(x.ev) = 1)
                   = [k \in 1 .. Len(rx[c]) |->
                        [ev |-> rx[c][k].kind, x |-> rx[c][k].id]]
             /\ rx'[c] = << >>
             /\ SelectSeq(e, LAMBDA x : x.ev = "poll")
                   = [k \in 1 .. Len(threads[c]) |->
                        [ev |-> "poll", x |-> threads[c][k]]]
             /\ SelectSeq(e, LAMBDA x : x.ev = "adopt")
                   = [k \in 1 .. Len(incoming[c]) |->
                        [ev |-> "adopt", x |-> incoming[c][k]]]
             /\ Range(incoming[c]) \cap Polled(e) = {}
             /\ incoming'[c] = << >>
             /\ threads'[c] =
                   IF rpc[c] = "polling"
                   THEN SelectSeq(threads[c] \o incoming[c],
                                  LAMBDA t : t \notin texited)
                   ELSE threads[c] \o incoming[c]]_vars

\* a poll_once of the second reactor ran a future, polled the thread it
\* had and then adopted another one
C21_Witness ==
    /\ pass[2].fn = "poll_once"
    /\ Len(pass[2].ev) = 3
    /\ pass[2].ev[1].ev = "user"
    /\ pass[2].ev[2].ev = "poll"
    /\ pass[2].ev[3].ev = "adopt"
    /\ Len(threads[2]) = 2
    /\ threads[2][2] = pass[2].ev[3].x

\* C22: a thread that has exited while in the threads of a reactor is
\* taken out of threads and destroyed, once, by the next iteration of the
\* reactor (pinned loop or future), and no poll touches a destroyed thread
C22_ExitedDestroyed ==
    /\ [][\A c \in Cores :
             Polls(c) =>
                \A t \in Range(threads[c]) \cap texited :
                   /\ t \notin Range(threads'[c])
                   /\ tdestroyed'[t] = tdestroyed[t] + 1]_vars
    /\ [](\A t \in Threads : tdestroyed[t] <= 1)
    /\ [][\A c \in Cores :
             Polls(c) => \A t \in Polled(pass'[c].ev) : tdestroyed[t] = 0]_vars

\* the pinned loop of the second reactor took an exited thread out of
\* threads and destroyed it, and kept the other thread
C22_Witness ==
    /\ rpc[2] = "loop"
    /\ pass[2].fn = "poll_once"
    /\ \E t \in Polled(pass[2].ev) : tdestroyed[t] = 1 /\ t \in texited
    /\ Len(threads[2]) = 1

\* C23: when the pinned loop has left on Shutdown, and when the reactor
\* future has returned Ready, threads is empty and every thread the
\* reactor held is destroyed, once; the future is Pending before Shutdown
C23_DrainedOnShutdown ==
    /\ [](\A c \in Cores : rpc[c] = "exited" => threads[c] = << >>)
    /\ [][(~futDone /\ futDone') => threads'[FirstCore] = << >>]_vars
    /\ [][\A c \in Cores :
             ((rpc[c] # "exited" /\ rpc'[c] = "exited")
                 \/ (c = FirstCore /\ ~futDone /\ futDone')) =>
                \A t \in Range(threads[c]) : tdestroyed'[t] = 1]_vars
    /\ [](\A t \in Threads : tdestroyed[t] <= 1)
    /\ [][(~futDone /\ futDone') => flags[FirstCore] = "Shutdown"]_vars

\* the reactor future has returned Ready and destroyed the two threads the
\* master held
C23_Witness ==
    /\ futDone
    /\ threads[FirstCore] = << >>
    /\ \A t \in Threads : tdestroyed[t] = 1
    /\ pass[FirstCore].fn = "poll_times"

\* C27: the threads deque of the primary reactor changes only while no
\* poll is iterating over it, also when a task run by poll_times or a
\* message of a polled thread calls block_on while a thread waits in
\* incoming
C27_NoMutationWhileIterating ==
    [][threads'[FirstCore] # threads[FirstCore] =>
          \* the step is the add_incoming of the innermost poll, whose own
          \* iteration is over
          /\ stack # << >>
          /\ Top.kind \in {"poll_threads", "poll_times"}
          /\ ~Iterating(Front(stack))]_vars

\* a message of a thread polled by poll_once has called block_on, whose
\* poll_once has reached add_incoming while a thread waits in incoming
C27_Witness ==
    /\ Len(stack) = 3
    /\ stack[1].kind = "poll_threads"
    /\ stack[2].kind = "block_on"
    /\ stack[3].kind = "poll_threads"
    /\ incoming[FirstCore] # << >>

====
